---- MODULE Spec2Model ----
(***************************************************************************)
(* Model of the lineage core of TimelineEditor.py: the metadata extractor, *)
(* VideoDatabase (scan_folders, build_graph, get_backward_chain,           *)
(* get_forward_tree) and TimelineApp.concat_videos.                        *)
(***************************************************************************)
EXTENDS Integers, Sequences, FiniteSets, TLC

\* ------------------------------------------------------------------ bounds
NumClips == 3        \* clips in the merged view of the graph specification
MaxChain == 5        \* cap on the length of the list get_backward_chain grows
MaxDepth == 5        \* stands for Python's recursion limit in get_forward_tree
MaxNodes == 2        \* nodes of a workflow document
MaxChanges == 1      \* changes of files and folder list in one behaviour
MaxVideos == 3       \* clips handed to concat_videos
MaxScans == 2        \* scan threads started in one run of the application
MaxKeyNodes == 1     \* nodes of a workflow document in the key-priority specification

\* ------------------------------------------------------- program constants
TIME_DELTA == 30

None == "None"

AllClips == <<"a.mp4", "b.mp4", "c.mp4", "d.mp4", "e.mp4">>
Clips == {AllClips[i] : i \in 1..NumClips}
ClipOrder == [i \in 1..NumClips |-> AllClips[i]]
Times == {0, 15, 30}       \* creation times of clips
PngTimes == {0, 1, 15}     \* modification times of frame images
PngNames == {"wan22_lastframe_1.png", "wan22_lastframe_2.png"}

\* ------------------------------------------------------------------- state
VARIABLES
    mp4s,        \* VideoDatabase.mp4s: path -> record (time, input_png, ...)
    mp4sOrder,   \* insertion order of the keys of VideoDatabase.mp4s
    pngs,        \* VideoDatabase.pngs: basename -> record (time, ...)
    pred,        \* VideoDatabase.pred: path -> path
    succ,        \* VideoDatabase.succ: path -> list of paths
    phase,       \* "loaded" (merged view filled), "built" (graph rebuilt)
    chainQ,      \* locals of a running get_backward_chain call
    treeQ,       \* locals of a running get_forward_tree call
    disk,        \* the files under the roots: path -> [exists, mtime]
    clipMeta,    \* the comment tag of each clip file
    folders,     \* TimelineApp.current_folders, the list given to scan_folders
    cache,       \* TimelineApp.cache: root -> [mp4s, pngs]
    changes,     \* what changed on disk or in the folder list since the last scan
    nChanges,    \* number of changes made so far
    lastScan,    \* what the last scan_folders call did
    ex,          \* one run of the extractor on one clip file
    cc,          \* arguments, locals and result of one concat_videos call
    ccDisk,      \* the paths concat_videos touches that hold a file
    jsonFiles,   \* timeline_config.json and timeline_cache.json on disk
    app,         \* TimelineApp and its windows: popups, grab, after queue, status
    threads      \* the scan threads started so far, each with its position

graphVars == <<mp4s, mp4sOrder, pngs, pred, succ, phase>>
queryVars == <<chainQ, treeQ>>
scanVars == <<disk, clipMeta, folders, cache, changes, nChanges, lastScan>>
extractVars == <<ex>>
concatVars == <<cc, ccDisk>>
appVars == <<jsonFiles, app, threads>>
vars == <<mp4s, mp4sOrder, pngs, pred, succ, phase, chainQ, treeQ,
          disk, clipMeta, folders, cache, changes, nChanges, lastScan,
          ex, cc, ccDisk, jsonFiles, app, threads>>

EmptyMap == <<>>

\* dict.get(key, default)
Get(d, k, default) == IF k \in DOMAIN d THEN d[k] ELSE default

Abs(x) == IF x < 0 THEN -x ELSE x

Reverse(s) == [i \in 1..Len(s) |-> s[Len(s) + 1 - i]]

\* ------------------------------------------------------ embedded metadata
\* JSON values as far as the extractor looks into them. A document is what
\* json.loads returns for the text under "prompt", or the value under
\* "workflow": null, a number, a non-empty list, or an object whose values
\* (the nodes) are kept in document order.
Absent == "absent"

ImageStrings == {"wan22_lastframe_1.png", "WAN22_LASTFRAME_2.PNG",
                 "wan22_lastframe_run/wan22_lastframe_2.png",
                 "input/wan22_lastframe_1.png"}

NoImage == [t |-> "absent", s |-> ""]
ImageValues == {NoImage, [t |-> "list", s |-> ""]} \cup {[t |-> "str", s |-> x] : x \in ImageStrings}

NoInputs == [t |-> "absent", image |-> NoImage]
InputsValues == {NoInputs, [t |-> "scalar", image |-> NoImage]}
                    \cup {[t |-> "dict", image |-> im] : im \in ImageValues}

NodeValues ==
    {[t |-> "scalar", class_type |-> Absent, inputs |-> NoInputs],
     [t |-> "dict", class_type |-> "KSampler", inputs |-> [t |-> "dict", image |-> NoImage]]}
    \cup {[t |-> "dict", class_type |-> "LoadImage", inputs |-> i] : i \in InputsValues}

NullDoc == [t |-> "null", nodes |-> <<>>]
PyNone == NullDoc

NodeSeqs(n) == UNION {[1..k -> NodeValues] : k \in 0..n}
Documents(n) ==
    {NullDoc, [t |-> "number", nodes |-> <<>>], [t |-> "list", nodes |-> <<>>]}
    \cup {[t |-> "dict", nodes |-> ns] : ns \in NodeSeqs(n)}

\* PNG_PATTERN.match(img) on the strings of the model:
\* ^wan22_lastframe_.*\.png$, ignoring case, anchored at the start of img
PatternMatches(img) ==
    img \in {"wan22_lastframe_1.png", "WAN22_LASTFRAME_2.PNG",
             "wan22_lastframe_run/wan22_lastframe_2.png"}

\* Path(img).name
PathName(img) ==
    CASE img = "wan22_lastframe_run/wan22_lastframe_2.png" -> "wan22_lastframe_2.png"
      [] img = "input/wan22_lastframe_1.png" -> "wan22_lastframe_1.png"
      [] OTHER -> img

\* The comment tag of a clip file. file: whether mutagen opens it and finds
\* tags and the tag; raw: whether the tag text is JSON, and the value it
\* decodes to (outer).
NoPrompt == [t |-> "absent", doc |-> NullDoc]
PromptValues(n) ==
    {NoPrompt, [t |-> "badtext", doc |-> NullDoc], [t |-> "nonstring", doc |-> NullDoc]}
    \cup {[t |-> "text", doc |-> d] : d \in Documents(n)}
NoWorkflowKey == [t |-> "absent", doc |-> NullDoc]
WorkflowValues(n) == {NoWorkflowKey} \cup {[t |-> "value", doc |-> d] : d \in Documents(n)}

NoOuter == [t |-> "none", prompt |-> NoPrompt, workflow |-> NoWorkflowKey]
OuterValues(n) ==
    {[t |-> "number", prompt |-> NoPrompt, workflow |-> NoWorkflowKey],
     [t |-> "list", prompt |-> NoPrompt, workflow |-> NoWorkflowKey]}
    \cup {[t |-> "dict", prompt |-> p, workflow |-> w] :
             p \in PromptValues(n), w \in WorkflowValues(n)}

Metadata(n) ==
    {[file |-> f, outer |-> NoOuter] : f \in {"unreadable", "notags", "nocmt", "badjson"}}
    \cup {[file |-> "json", outer |-> o] : o \in OuterValues(n)}

\* extract_workflow_from_mp4 with the test of "workflow" before the test of
\* "prompt"
ExtractWorkflow_WorkflowFirst(meta) ==
    IF meta.file # "json" THEN PyNone
    ELSE LET outer == meta.outer
         IN IF outer.t = "number" THEN PyNone
            ELSE IF outer.t = "list" THEN PyNone
            ELSE IF outer.workflow.t # "absent" THEN outer.workflow.doc
            ELSE IF outer.prompt.t # "absent"
            THEN IF outer.prompt.t = "text" THEN outer.prompt.doc
                 ELSE PyNone
            ELSE PyNone

\* extract_workflow_from_mp4: everything inside the try block; every exception
\* is caught and gives None
ExtractWorkflow(meta) ==
    IF meta.file # "json" THEN PyNone
    ELSE LET outer == meta.outer
         IN IF outer.t = "number" THEN PyNone              \* "prompt" in 5: TypeError
            ELSE IF outer.t = "list" THEN PyNone           \* neither key is an element
            ELSE IF outer.prompt.t # "absent"
            THEN IF outer.prompt.t = "text" THEN outer.prompt.doc
                 ELSE PyNone                                \* json.loads raises
            ELSE IF outer.workflow.t # "absent" THEN outer.workflow.doc
            ELSE PyNone

Returned(v) == [raised |-> FALSE, value |-> v]
Raised == [raised |-> TRUE, value |-> None]

\* the loop over workflow.values(), from node i on
RECURSIVE FindFrom(_, _)
FindFrom(nodes, i) ==
    IF i > Len(nodes) THEN Returned(None)
    ELSE LET node == nodes[i]
         IN IF node.t # "dict" THEN Raised                       \* node.get
            ELSE IF node.class_type # "LoadImage" THEN FindFrom(nodes, i + 1)
            ELSE IF node.inputs.t = "absent" THEN Raised         \* node["inputs"]
            ELSE IF node.inputs.t # "dict" THEN Raised           \* inputs.get
            ELSE LET image == node.inputs.image
                 IN IF image.t = "list" THEN Raised              \* PNG_PATTERN.match
                    ELSE LET img == IF image.t = "absent" THEN "" ELSE image.s
                         IN IF PatternMatches(img) THEN Returned(PathName(img))
                            ELSE FindFrom(nodes, i + 1)

\* find_input_lastframe_png: returns a basename or None, or raises
FindInputLastframePng(workflow) ==
    IF workflow.t = "null" \/ (workflow.t = "dict" /\ workflow.nodes = <<>>)
    THEN Returned(None)
    ELSE IF workflow.t # "dict" THEN Raised                      \* workflow.values
    ELSE FindFrom(workflow.nodes, 1)

\* --------------------------------------------------------------- build_graph
\* the sort key without its second component: key=lambda x: x[0]
SortKeyLess_NoTieBreak(a, b) == a[1] < b[1]

\* key=lambda x: (x[0], -x[1]) compared as Python compares tuples
SortKeyLess(a, b) ==
    \/ a[1] < b[1]
    \/ a[1] = b[1] /\ (0 - a[2]) < (0 - b[2])

\* insert x behind every element whose key is not greater: the sort is stable
RECURSIVE InsertSorted(_, _)
InsertSorted(x, sorted) ==
    IF sorted = <<>> THEN <<x>>
    ELSE IF SortKeyLess(x, Head(sorted)) THEN <<x>> \o sorted
    ELSE <<Head(sorted)>> \o InsertSorted(x, Tail(sorted))

\* list.sort(key=...): a stable sort
RECURSIVE SortCandidates(_)
SortCandidates(cands) ==
    IF cands = <<>> THEN <<>>
    ELSE InsertSorted(cands[Len(cands)], SortCandidates(SubSeq(cands, 1, Len(cands) - 1)))

\* the inner loop with "if dt <= TIME_DELTA"
RECURSIVE Candidates_Inclusive(_, _, _, _, _)
Candidates_Inclusive(order, recs, mp4_path, png_time, j) ==
    IF j > Len(order) THEN <<>>
    ELSE LET other_mp4 == order[j]
             other_time == recs[other_mp4].time
             dt == Abs(other_time - png_time)
             rest == Candidates_Inclusive(order, recs, mp4_path, png_time, j + 1)
         IN IF other_mp4 = mp4_path THEN rest
            ELSE IF dt <= TIME_DELTA THEN <<<<dt, other_time, other_mp4>>>> \o rest
            ELSE rest

\* the inner loop without "if other_mp4 == mp4_path: continue"
RECURSIVE Candidates_WithSelf(_, _, _, _, _)
Candidates_WithSelf(order, recs, mp4_path, png_time, j) ==
    IF j > Len(order) THEN <<>>
    ELSE LET other_mp4 == order[j]
             other_time == recs[other_mp4].time
             dt == Abs(other_time - png_time)
             rest == Candidates_WithSelf(order, recs, mp4_path, png_time, j + 1)
         IN IF dt < TIME_DELTA THEN <<<<dt, other_time, other_mp4>>>> \o rest
            ELSE rest

\* the inner loop: (dt, other_time, other_mp4) of every other clip inside the
\* window, in the iteration order of mp4s
RECURSIVE Candidates(_, _, _, _, _)
Candidates(order, recs, mp4_path, png_time, j) ==
    IF j > Len(order) THEN <<>>
    ELSE LET other_mp4 == order[j]
             other_time == recs[other_mp4].time
             dt == Abs(other_time - png_time)
             rest == Candidates(order, recs, mp4_path, png_time, j + 1)
         IN IF other_mp4 = mp4_path THEN rest
            ELSE IF dt < TIME_DELTA THEN <<<<dt, other_time, other_mp4>>>> \o rest
            ELSE rest

\* LinkClip with "self.succ[predecessor] = [mp4_path]" for
\* "self.succ.setdefault(predecessor, []).append(mp4_path)"
LinkClip_SuccOverwrite(order, recs, pngMap, mp4_path, g) ==
    LET input_png == recs[mp4_path].input_png
    IN IF input_png = None \/ input_png \notin DOMAIN pngMap THEN g
       ELSE LET png_time == pngMap[input_png].time
                candidates == Candidates(order, recs, mp4_path, png_time, 1)
            IN IF candidates = <<>> THEN g
               ELSE LET predecessor == SortCandidates(candidates)[1][3]
                    IN [pred |-> (mp4_path :> predecessor) @@ g.pred,
                        succ |-> (predecessor :> <<mp4_path>>) @@ g.succ]

\* LinkClip with "if len(candidates) > 1" for "if candidates"
LinkClip_NeedsTwoCandidates(order, recs, pngMap, mp4_path, g) ==
    LET input_png == recs[mp4_path].input_png
    IN IF input_png = None \/ input_png \notin DOMAIN pngMap THEN g
       ELSE LET png_time == pngMap[input_png].time
                candidates == Candidates(order, recs, mp4_path, png_time, 1)
            IN IF Len(candidates) <= 1 THEN g
               ELSE LET predecessor == SortCandidates(candidates)[1][3]
                    IN [pred |-> (mp4_path :> predecessor) @@ g.pred,
                        succ |-> (predecessor :>
                                    Append(Get(g.succ, predecessor, <<>>), mp4_path))
                                 @@ g.succ]

\* one iteration of the outer loop of build_graph, on the graph g so far
LinkClip(order, recs, pngMap, mp4_path, g) ==
    LET input_png == recs[mp4_path].input_png
    IN IF input_png = None \/ input_png \notin DOMAIN pngMap THEN g
       ELSE LET png_time == pngMap[input_png].time
                candidates == Candidates(order, recs, mp4_path, png_time, 1)
            IN IF candidates = <<>> THEN g
               ELSE LET predecessor == SortCandidates(candidates)[1][3]
                    IN [pred |-> (mp4_path :> predecessor) @@ g.pred,
                        succ |-> (predecessor :>
                                    Append(Get(g.succ, predecessor, <<>>), mp4_path))
                                 @@ g.succ]

RECURSIVE BuildFrom(_, _, _, _, _)
BuildFrom(order, recs, pngMap, i, g) ==
    IF i > Len(order) THEN g
    ELSE BuildFrom(order, recs, pngMap, i + 1,
                   LinkClip(order, recs, pngMap, order[i], g))

\* build_graph without self.pred.clear() and self.succ.clear()
BuildGraph_NoClear(order, recs, pngMap) ==
    BuildFrom(order, recs, pngMap, 1, [pred |-> pred, succ |-> succ])

\* build_graph: pred and succ cleared, then rebuilt from mp4s and pngs
BuildGraph(order, recs, pngMap) ==
    BuildFrom(order, recs, pngMap, 1, [pred |-> EmptyMap, succ |-> EmptyMap])

\* --------------------------------------------------------------- scan_folders
\* The file system of the scan specification: three clip files and three
\* frame images of one basename under the roots /A, /A/sub (inside /A) and /B.
ClipFiles == <<"/A/x.mp4", "/A/sub/y.mp4", "/B/z.mp4">>
PngFiles == <<"/A/wan22_lastframe_1.png", "/A/sub/wan22_lastframe_1.png",
              "/B/wan22_lastframe_1.png">>
Range(f) == {f[i] : i \in DOMAIN f}
Files == Range(ClipFiles) \cup Range(PngFiles)

\* a configured root that is no directory (missing) or cannot be listed: rglob
\* yields nothing for it
MissingRoots == {"/M"}

\* the roots a file lies under, at any depth (what rglob walks)
RootsOf(path) ==
    CASE path \in {"/A/x.mp4", "/A/wan22_lastframe_1.png"} -> {"/A"}
      [] path \in {"/A/sub/y.mp4", "/A/sub/wan22_lastframe_1.png"} -> {"/A", "/A/sub"}
      [] path \in {"/B/z.mp4", "/B/wan22_lastframe_1.png"} -> {"/B"}
      [] OTHER -> {}

\* Path(path).name of a frame image
BaseName(path) == IF path \in Range(PngFiles) THEN "wan22_lastframe_1.png" ELSE path

\* os.path.getctime of a clip file
Ctime(path) ==
    CASE path = "/A/x.mp4" -> 0
      [] path = "/A/sub/y.mp4" -> 15
      [] OTHER -> 30

Put(d, k, v) == (k :> v) @@ d
Restrict(d, S) == [k \in (DOMAIN d) \cap S |-> d[k]]

\* {str(p.resolve()): p.stat().st_mtime for p in folder.rglob(pattern)}: the
\* keys in the order rglob yields them
Current(files, fsys, folder_key) ==
    SelectSeq(files, LAMBDA p : fsys[p].exists /\ folder_key \in RootsOf(p))

NoEntry == [mp4s |-> EmptyMap, pngs |-> EmptyMap]

\* the loop "for path, mtime in current_mp4.items()" from index i on;
\* an exception of find_input_lastframe_png leaves the loop and the scan
RECURSIVE ScanMp4s(_, _, _, _, _, _)
ScanMp4s(fsys, meta, folder_key, current_mp4, i, st) ==
    IF i > Len(current_mp4) THEN st
    ELSE LET path == current_mp4[i]
             mtime == fsys[path].mtime
             cached == st.cache[folder_key].mp4s
         IN IF path \notin DOMAIN cached \/ cached[path].mtime # mtime
            THEN LET workflow == ExtractWorkflow(meta[path])
                     found == FindInputLastframePng(workflow)
                     called == [st EXCEPT !.calls[path] = @ + 1]
                     record == [time |-> Ctime(path), workflow |-> workflow,
                                input_png |-> found.value, mtime |-> mtime]
                 IN IF found.raised THEN [called EXCEPT !.raised = TRUE]
                    ELSE ScanMp4s(fsys, meta, folder_key, current_mp4, i + 1,
                            [called EXCEPT
                                !.cache[folder_key].mp4s = Put(@, path, record),
                                !.written = @ \cup {<<folder_key, path>>},
                                !.mp4s = Put(@, path, record),
                                !.order = IF path \in Range(@) THEN @ ELSE Append(@, path)])
            ELSE ScanMp4s(fsys, meta, folder_key, current_mp4, i + 1,
                    [st EXCEPT
                        !.mp4s = Put(@, path, cached[path]),
                        !.order = IF path \in Range(@) THEN @ ELSE Append(@, path)])

\* the loop "for path, mtime in current_png.items()" from index i on
RECURSIVE ScanPngs(_, _, _, _, _)
ScanPngs(fsys, folder_key, current_png, i, st) ==
    IF i > Len(current_png) THEN st
    ELSE LET path == current_png[i]
             mtime == fsys[path].mtime
             name == BaseName(path)
             cached == st.cache[folder_key].pngs
             fresh == name \notin DOMAIN cached \/ cached[name].mtime # mtime
             record == IF fresh
                       THEN [path |-> path, time |-> mtime, mtime |-> mtime]
                       ELSE cached[name]
         IN ScanPngs(fsys, folder_key, current_png, i + 1,
                [st EXCEPT !.cache[folder_key].pngs = Put(@, name, record),
                           !.written = IF fresh THEN @ \cup {<<folder_key, name>>} ELSE @,
                           !.pngs = Put(@, name, record)])

\* the body of "for folder_str in folders" for one folder; removed and
\* written log the <<root, key>> pairs deleted from and assigned in the cache
ScanFolder(fsys, meta, folder_key, st) ==
    LET created == IF folder_key \in DOMAIN st.cache THEN st
                   ELSE [st EXCEPT !.cache = Put(@, folder_key, NoEntry)]
        current_mp4 == Current(ClipFiles, fsys, folder_key)
        current_png == Current(PngFiles, fsys, folder_key)
        \* "Remove deleted": the keys of the frame-image map are basenames,
        \* the keys of current_png are resolved paths
        gone == (DOMAIN created.cache[folder_key].mp4s \ Range(current_mp4))
                    \cup (DOMAIN created.cache[folder_key].pngs \ Range(current_png))
        cleaned == [created EXCEPT
                       !.cache[folder_key].mp4s = Restrict(@, Range(current_mp4)),
                       !.cache[folder_key].pngs = Restrict(@, Range(current_png)),
                       !.removed = @ \cup {<<folder_key, k>> : k \in gone}]
        afterMp4s == ScanMp4s(fsys, meta, folder_key, current_mp4, 1, cleaned)
    IN IF afterMp4s.raised THEN afterMp4s
       ELSE ScanPngs(fsys, folder_key, current_png, 1, afterMp4s)

\* the folder loop when listing a missing root raises out of scan_folders
RECURSIVE ScanFrom_MissingRootAborts(_, _, _, _, _)
ScanFrom_MissingRootAborts(fsys, meta, folder_list, i, st) ==
    IF i > Len(folder_list) \/ st.raised THEN st
    ELSE IF folder_list[i] \in MissingRoots THEN [st EXCEPT !.raised = TRUE]
    ELSE ScanFrom_MissingRootAborts(fsys, meta, folder_list, i + 1,
                                    ScanFolder(fsys, meta, folder_list[i], st))

RECURSIVE ScanFrom(_, _, _, _, _)
ScanFrom(fsys, meta, folder_list, i, st) ==
    IF i > Len(folder_list) \/ st.raised THEN st
    ELSE ScanFrom(fsys, meta, folder_list, i + 1, ScanFolder(fsys, meta, folder_list[i], st))

\* scan_folders up to the call of build_graph: the merged view cleared, the
\* cache entries of removed folder_list dropped, every folder scanned in turn
ScanFolders(fsys, meta, folder_list, cache0) ==
    ScanFrom(fsys, meta, folder_list, 1,
             [cache |-> Restrict(cache0, Range(folder_list)),
              mp4s |-> EmptyMap, order |-> <<>>, pngs |-> EmptyMap,
              calls |-> [p \in Range(ClipFiles) |-> 0],
              removed |-> {}, written |-> {},
              raised |-> FALSE])

\* -------------------------------------------------------- get_backward_chain
ChainIdle == [pc |-> "idle", start |-> None, chain |-> <<>>, current |-> None]

ChainEnter(start_mp4) ==
    [pc |-> "loop", start |-> start_mp4, chain |-> <<>>, current |-> start_mp4]

\* ChainStep without chain.reverse()
ChainStep_NoReverse(predMap, q) ==
    IF q.current # None
    THEN [q EXCEPT !.chain = Append(q.chain, q.current),
                   !.current = Get(predMap, q.current, None)]
    ELSE [q EXCEPT !.pc = "done"]

\* ChainStep with the loop body in the wrong order: current advanced before
\* it is appended
ChainStep_AdvanceFirst(predMap, q) ==
    IF q.current # None
    THEN LET nxt == Get(predMap, q.current, None)
         IN [q EXCEPT !.chain = IF nxt # None THEN Append(q.chain, nxt) ELSE q.chain,
                      !.current = nxt]
    ELSE [q EXCEPT !.pc = "done", !.chain = Reverse(q.chain)]

\* one evaluation of "while current:": the body, or the exit with the
\* reversed chain returned
ChainStep(predMap, q) ==
    IF q.current # None
    THEN [q EXCEPT !.chain = Append(q.chain, q.current),
                   !.current = Get(predMap, q.current, None)]
    ELSE [q EXCEPT !.pc = "done", !.chain = Reverse(q.chain)]

\* --------------------------------------------------------- get_forward_tree
TreeIdle == [pc |-> "idle", start |-> None, tree |-> EmptyMap, stack |-> <<>>,
             calls |-> EmptyMap]

\* entering recurse(mp4): children read, tree[mp4] assigned
TreeCall(succMap, q, mp4) ==
    [q EXCEPT !.tree = (mp4 :> Get(succMap, mp4, <<>>)) @@ q.tree,
              !.stack = Append(q.stack, [mp4 |-> mp4, next |-> 1]),
              !.calls = (mp4 :> (Get(q.calls, mp4, 0) + 1)) @@ q.calls]

TreeEnter(succMap, start_mp4) ==
    TreeCall(succMap, [TreeIdle EXCEPT !.pc = "run", !.start = start_mp4], start_mp4)

\* TreeStep that records a child without recursing into it
TreeStep_NoDescend(succMap, q) ==
    LET top == q.stack[Len(q.stack)]
        children == q.tree[top.mp4]
    IN IF top.next > Len(children)
       THEN LET popped == SubSeq(q.stack, 1, Len(q.stack) - 1)
            IN [q EXCEPT !.stack = popped,
                         !.pc = IF popped = <<>> THEN "done" ELSE "run"]
       ELSE [q EXCEPT !.stack[Len(q.stack)].next = top.next + 1,
                      !.tree = (children[top.next] :> Get(succMap, children[top.next], <<>>))
                               @@ q.tree]

\* one step of the recursion: the top frame descends into its next child, or
\* returns when its children are exhausted; a call beyond the recursion limit
\* raises RecursionError
TreeStep(succMap, q) ==
    LET top == q.stack[Len(q.stack)]
        children == q.tree[top.mp4]
    IN IF top.next > Len(children)
       THEN LET popped == SubSeq(q.stack, 1, Len(q.stack) - 1)
            IN [q EXCEPT !.stack = popped,
                         !.pc = IF popped = <<>> THEN "done" ELSE "run"]
       ELSE IF Len(q.stack) >= MaxDepth
       THEN [q EXCEPT !.pc = "RecursionError"]
       ELSE TreeCall(succMap,
                     [q EXCEPT !.stack[Len(q.stack)].next = top.next + 1],
                     children[top.next])

\* ------------------------------------------------------------ concat_videos
\* Paths are sequences of characters, so that the quote escaping is computed.
QUOTE == "'"
VideoPaths == {<<"x">>, <<"y", QUOTE, "s">>}
OutArg == <<"o", "u", "t">>      \* the path chosen in the save dialog
TmpOut == <<"t", "m", "p">>      \* the path tempfile.mkstemp(suffix=".mp4") makes
TmpList == <<"l", "s", "t">>     \* the path tempfile.mktemp(suffix=".txt") names

NoPath == [given |-> FALSE, path |-> <<>>]
Given(path) == [given |-> TRUE, path |-> path]

\* v.replace("'", "'\\''")
RECURSIVE Escape(_)
Escape(v) ==
    IF v = <<>> THEN <<>>
    ELSE (IF Head(v) = QUOTE THEN <<QUOTE, "\\", QUOTE, QUOTE>> ELSE <<Head(v)>>)
         \o Escape(Tail(v))

\* f.write(f"file '{escaped}'\n") for every clip of video_list
ListLines(video_list) ==
    [i \in 1..Len(video_list) |-> <<"file ", QUOTE>> \o Escape(video_list[i]) \o <<QUOTE, "\n">>]

ConcatIdle ==
    [pc |-> "idle", video_list |-> <<>>, output_arg |-> NoPath, high_quality |-> FALSE,
     output_path |-> NoPath, list_lines |-> <<>>, preset |-> "", crf |-> "",
     runs |-> 0, returncode |-> 0, reported |-> FALSE, result |-> NoPath,
     disk0 |-> {}, caller |-> "none", thread |-> "none"]

\* concat_videos without "if len(video_list) == 1: return video_list[0]"
ConcatBegin_NoShortCircuit(q, files) ==
    IF q.video_list = <<>>
    THEN [q |-> [q EXCEPT !.pc = "returned", !.result = NoPath], files |-> files]
    ELSE LET output_path == IF q.output_arg.given THEN q.output_arg.path ELSE TmpOut
             made == IF q.output_arg.given THEN files ELSE files \cup {TmpOut}
         IN [q |-> [q EXCEPT !.pc = "encode",
                             !.output_path = Given(output_path),
                             !.preset = IF q.high_quality THEN "veryslow" ELSE "veryfast",
                             !.crf = IF q.high_quality THEN "17" ELSE "23",
                             !.list_lines = ListLines(q.video_list)],
             files |-> made \cup {TmpList}]

\* concat_videos from its entry to the call of subprocess.run
ConcatBegin(q, files) ==
    IF q.video_list = <<>>
    THEN [q |-> [q EXCEPT !.pc = "returned", !.result = NoPath], files |-> files]
    ELSE IF Len(q.video_list) = 1
    THEN [q |-> [q EXCEPT !.pc = "returned", !.result = Given(q.video_list[1])],
          files |-> files]
    ELSE LET output_path == IF q.output_arg.given THEN q.output_arg.path ELSE TmpOut
             made == IF q.output_arg.given THEN files ELSE files \cup {TmpOut}
         IN [q |-> [q EXCEPT !.pc = "encode",
                             !.output_path = Given(output_path),
                             !.preset = IF q.high_quality THEN "veryslow" ELSE "veryfast",
                             !.crf = IF q.high_quality THEN "17" ELSE "23",
                             !.list_lines = ListLines(q.video_list)],
             files |-> made \cup {TmpList}]

\* subprocess.run(cmd, ...): the encoder cannot be started (subprocess.run
\* raises and the exception leaves concat_videos), or it runs and exits with
\* status 0 and the output written, or with a non-zero status and the output
\* written in part or not at all
EncoderOutcomes == {"cannot_run", "exit0", "failed_partial", "failed_no_output"}

ConcatEncode(q, files, outcome) ==
    CASE outcome = "cannot_run" ->
            [q |-> [q EXCEPT !.pc = "raised"], files |-> files]
      [] outcome = "exit0" ->
            [q |-> [q EXCEPT !.pc = "after", !.runs = @ + 1, !.returncode = 0],
             files |-> files \cup {q.output_path.path}]
      [] outcome = "failed_partial" ->
            [q |-> [q EXCEPT !.pc = "after", !.runs = @ + 1, !.returncode = 1],
             files |-> files \cup {q.output_path.path}]
      [] OTHER ->
            [q |-> [q EXCEPT !.pc = "after", !.runs = @ + 1, !.returncode = 1],
             files |-> files]

\* concat_videos from os.remove(list_path) to its return
ConcatFinish(q, files) ==
    LET unlisted == files \ {TmpList}
    IN IF q.returncode # 0
       THEN [q |-> [q EXCEPT !.pc = "returned", !.reported = TRUE, !.result = NoPath],
             files |-> unlisted \ {q.output_path.path}]
       ELSE [q |-> [q EXCEPT !.pc = "returned", !.result = q.output_path],
             files |-> unlisted]

\* ---------------------------------------------------- states of idle parts
ExtractIdle == [pc |-> "idle", meta |-> [file |-> "nocmt", outer |-> NoOuter],
                workflow |-> PyNone, found |-> Returned(None)]

NoScan == [n |-> 0, delta |-> {}, raised |-> FALSE,
           calls |-> [p \in Range(ClipFiles) |-> 0]]

GraphAtRest ==
    /\ mp4s = EmptyMap
    /\ mp4sOrder = <<>>
    /\ pngs = EmptyMap
    /\ pred = EmptyMap
    /\ succ = EmptyMap
    /\ phase = "loaded"

QueriesAtStart == chainQ = ChainIdle /\ treeQ = TreeIdle

ScanAtRest ==
    /\ disk = [p \in Files |-> [exists |-> FALSE, mtime |-> 0]]
    /\ clipMeta = [p \in Range(ClipFiles) |-> [file |-> "nocmt", outer |-> NoOuter]]
    /\ folders = <<>>
    /\ cache = EmptyMap
    /\ changes = {}
    /\ nChanges = 0
    /\ lastScan = NoScan

ExtractAtRest == ex = ExtractIdle

ConcatAtRest == cc = ConcatIdle /\ ccDisk = {}

\* the merged view and graph of a VideoDatabase, as a reader sees them
View(m, p, pr, su) == [mp4s |-> m, pngs |-> p, pred |-> pr, succ |-> su]
EmptyView == View(EmptyMap, EmptyMap, EmptyMap, EmptyMap)

NoRead == [taken |-> FALSE, during |-> FALSE, view |-> EmptyView, complete |-> {}]

\* TimelineApp before __init__ has run
AppOff ==
    [started |-> FALSE,
     cacheObj |-> "dict",        \* what kind of object self.cache is
     popups |-> <<>>,            \* every progress popup made: is it still open
     grab |-> 0,                 \* the popup that holds the grab, 0 for none
     boxes |-> 0,                \* message boxes that are open
     afterQ |-> <<>>,            \* callbacks posted with root.after(0, ...)
     welcome |-> TRUE,           \* the welcome text is on the canvas
     status |-> [text |-> "Initializing...", videos |-> 0, frames |-> 0],
     committed |-> EmptyView,    \* the state the last finished scan_folders left
     read |-> NoRead]            \* what the last query read

AppAtRest ==
    /\ jsonFiles = [config |-> "missing", cache |-> "missing"]
    /\ app = AppOff
    /\ threads = <<>>

\* ------------------------------------------------- the graph specification
MergedClipRecords == [Clips -> [time : Times, input_png : PngNames \cup {None}]]
MergedPngRecords ==
    UNION {[names -> [time : PngTimes]] : names \in SUBSET PngNames}

InitGraph ==
    /\ mp4s \in MergedClipRecords
    /\ mp4sOrder = ClipOrder
    /\ pngs \in MergedPngRecords
    /\ pred = EmptyMap
    /\ succ = EmptyMap
    /\ phase = "loaded"
    /\ QueriesAtStart
    /\ AppAtRest
    /\ ScanAtRest
    /\ ExtractAtRest
    /\ ConcatAtRest

DoBuildGraph ==
    /\ phase = "loaded"
    /\ LET g == BuildGraph(mp4sOrder, mp4s, pngs)
       IN /\ pred' = g.pred
          /\ succ' = g.succ
    /\ phase' = "built"
    /\ UNCHANGED <<mp4s, mp4sOrder, pngs, queryVars, scanVars, extractVars, concatVars, appVars>>

QueriesIdle == chainQ.pc = "idle" /\ treeQ.pc = "idle"

\* show_backward(video_path) asks for the chain of a clip of the merged view
CallBackwardChain ==
    /\ phase = "built"
    /\ QueriesIdle
    /\ \E start_mp4 \in DOMAIN mp4s : chainQ' = ChainEnter(start_mp4)
    /\ treeQ' = TreeIdle
    /\ UNCHANGED <<graphVars, scanVars, extractVars, concatVars, appVars>>

BackwardChainStep ==
    /\ chainQ.pc = "loop"
    /\ Len(chainQ.chain) < MaxChain
    /\ chainQ' = ChainStep(pred, chainQ)
    /\ UNCHANGED <<graphVars, treeQ, scanVars, extractVars, concatVars, appVars>>

\* show_forward(video_path) asks for the tree of a clip of the merged view
CallForwardTree ==
    /\ phase = "built"
    /\ QueriesIdle
    /\ \E start_mp4 \in DOMAIN mp4s : treeQ' = TreeEnter(succ, start_mp4)
    /\ chainQ' = ChainIdle
    /\ UNCHANGED <<graphVars, scanVars, extractVars, concatVars, appVars>>

ForwardTreeStep ==
    /\ treeQ.pc = "run"
    /\ treeQ' = TreeStep(succ, treeQ)
    /\ UNCHANGED <<graphVars, chainQ, scanVars, extractVars, concatVars, appVars>>

\* the caller has its result (or the RecursionError) and the locals are gone
QueryReturn ==
    /\ chainQ.pc = "done" \/ treeQ.pc \in {"done", "RecursionError"}
    /\ chainQ' = ChainIdle
    /\ treeQ' = TreeIdle
    /\ UNCHANGED <<graphVars, scanVars, extractVars, concatVars, appVars>>

NextGraph ==
    \/ DoBuildGraph
    \/ CallBackwardChain
    \/ BackwardChainStep
    \/ CallForwardTree
    \/ ForwardTreeStep
    \/ QueryReturn

SpecGraph == InitGraph /\ [][NextGraph]_vars

\* --------------------------------------------- the extractor specification
InitExtract ==
    /\ ex \in {[ExtractIdle EXCEPT !.pc = "start", !.meta = m] : m \in Metadata(MaxNodes)}
    /\ GraphAtRest
    /\ QueriesAtStart
    /\ AppAtRest
    /\ ScanAtRest
    /\ ConcatAtRest

\* workflow = extract_workflow_from_mp4(path)
CallExtractWorkflow ==
    /\ ex.pc = "start"
    /\ ex' = [ex EXCEPT !.pc = "extracted", !.workflow = ExtractWorkflow(ex.meta)]
    /\ UNCHANGED <<graphVars, queryVars, scanVars, concatVars, appVars>>

\* input_png = find_input_lastframe_png(workflow)
CallFindInput ==
    /\ ex.pc = "extracted"
    /\ LET found == FindInputLastframePng(ex.workflow)
       IN ex' = [ex EXCEPT !.pc = IF found.raised THEN "raised" ELSE "returned",
                           !.found = found]
    /\ UNCHANGED <<graphVars, queryVars, scanVars, concatVars, appVars>>

NextExtract ==
    \/ CallExtractWorkflow
    \/ CallFindInput

SpecExtract == InitExtract /\ [][NextExtract]_vars

\* The extraction on comment tags whose documents have at most MaxKeyNodes
\* nodes: every combination of the keys "prompt" and "workflow".
InitKeys ==
    /\ ex \in {[ExtractIdle EXCEPT !.pc = "start", !.meta = m] : m \in Metadata(MaxKeyNodes)}
    /\ GraphAtRest
    /\ QueriesAtStart
    /\ AppAtRest
    /\ ScanAtRest
    /\ ConcatAtRest

SpecKeys == InitKeys /\ [][NextExtract]_vars

\* -------------------------------------------------- the scan specification
\* the comment tags of the clip files of the scan specification
TagWith(doc) ==
    [file |-> "json",
     outer |-> [t |-> "dict", prompt |-> [t |-> "text", doc |-> doc],
                workflow |-> NoWorkflowKey]]
LoadImageNode(inputs) == [t |-> "dict", class_type |-> "LoadImage", inputs |-> inputs]
TagSeed1 ==
    TagWith([t |-> "dict", nodes |-> <<LoadImageNode(
        [t |-> "dict", image |-> [t |-> "str", s |-> "wan22_lastframe_1.png"]])>>])
TagNoInputs == TagWith([t |-> "dict", nodes |-> <<LoadImageNode(NoInputs)>>])
TagNone == [file |-> "nocmt", outer |-> NoOuter]
ScanTags == {TagSeed1, TagNoInputs, TagNone}

\* the folder lists of the model: one root, two roots, a root and a root
\* inside it in both orders, a root listed twice, a missing root before an
\* existing one
FolderLists == {<<"/A">>, <<"/B">>, <<"/A", "/B">>, <<"/A", "/A/sub">>,
                <<"/A/sub", "/A">>, <<"/A", "/A">>, <<"/M", "/B">>}

\* st_mtime of each file at the start
FirstMtime(path) ==
    CASE path = "/A/sub/wan22_lastframe_1.png" -> 2
      [] path = "/B/wan22_lastframe_1.png" -> 31
      [] OTHER -> 1

InitScan ==
    /\ disk = [p \in Files |-> [exists |-> TRUE, mtime |-> FirstMtime(p)]]
    /\ clipMeta \in {m \in [Range(ClipFiles) -> ScanTags] : m["/A/x.mp4"] = TagNone}
    /\ folders \in FolderLists
    /\ cache = EmptyMap
    /\ changes = {}
    /\ nChanges = 0
    /\ lastScan = NoScan
    /\ GraphAtRest
    /\ QueriesAtStart
    /\ AppAtRest
    /\ ExtractAtRest
    /\ ConcatAtRest

Changed(event) ==
    /\ nChanges < MaxChanges
    /\ nChanges' = nChanges + 1
    /\ changes' = changes \cup {event}

\* a file's modification time changes, its content does not
Touch ==
    \E p \in Files :
        /\ disk[p].exists
        /\ disk' = [disk EXCEPT ![p].mtime = @ + 1]
        /\ Changed(<<"touch", p>>)
        /\ UNCHANGED <<clipMeta, folders, cache, lastScan,
                       graphVars, queryVars, extractVars, concatVars, appVars>>

Delete ==
    \E p \in Files :
        /\ disk[p].exists
        /\ disk' = [disk EXCEPT ![p].exists = FALSE]
        /\ Changed(<<"delete", p>>)
        /\ UNCHANGED <<clipMeta, folders, cache, lastScan,
                       graphVars, queryVars, extractVars, concatVars, appVars>>

\* save_and_refresh up to the start of the scan: the folder list replaced
SetFolders ==
    \E fl \in FolderLists :
        /\ fl # folders
        /\ folders' = fl
        /\ Changed(<<"folders", "">>)
        /\ UNCHANGED <<disk, clipMeta, cache, lastScan,
                       graphVars, queryVars, extractVars, concatVars, appVars>>

\* scan_folders(self.current_folders, self.cache); an exception of the
\* extractor ends it before build_graph
Scan ==
    /\ LET st == ScanFolders(disk, clipMeta, folders, cache)
           g == BuildGraph(st.order, st.mp4s, st.pngs)
       IN /\ cache' = st.cache
          /\ mp4s' = st.mp4s
          /\ mp4sOrder' = st.order
          /\ pngs' = st.pngs
          /\ pred' = IF st.raised THEN pred ELSE g.pred
          /\ succ' = IF st.raised THEN succ ELSE g.succ
          /\ phase' = IF st.raised THEN "loaded" ELSE "built"
          /\ lastScan' = [n |-> IF lastScan.n = 0 THEN 1 ELSE 2, delta |-> changes,
                          raised |-> st.raised, calls |-> st.calls]
    /\ changes' = {}
    /\ UNCHANGED <<disk, clipMeta, folders, nChanges, queryVars, extractVars, concatVars, appVars>>

NextScan ==
    \/ Touch
    \/ Delete
    \/ SetFolders
    \/ Scan

SpecScan == InitScan /\ [][NextScan]_vars

\* ------------------------------------------------ the concat specification
VideoLists == UNION {[1..k -> VideoPaths] : k \in 0..MaxVideos}

InitConcat ==
    /\ cc = ConcatIdle
    /\ ccDisk \in SUBSET {OutArg}
    /\ GraphAtRest
    /\ QueriesAtStart
    /\ AppAtRest
    /\ ScanAtRest
    /\ ExtractAtRest

\* concat_videos(video_list, output_path, high_quality) is called with any
\* arguments its signature admits, on the thread of whoever calls it
CallConcat ==
    /\ cc.pc = "idle"
    /\ \E vl \in VideoLists, out \in {NoPath, Given(OutArg)}, hq \in BOOLEAN :
          cc' = [ConcatIdle EXCEPT !.pc = "called", !.video_list = vl,
                                   !.output_arg = out, !.high_quality = hq,
                                   !.disk0 = ccDisk,
                                   !.caller = "direct", !.thread = "callers"]
    /\ UNCHANGED <<ccDisk, graphVars, queryVars, scanVars, extractVars, appVars>>

\* the button "Preview Up To": preview_up_to runs as a Tk callback on the UI
\* thread and, for a chain of two or more clips, calls
\* concat_videos(videos, high_quality=False) itself, starting no thread
PreviewUpTo ==
    /\ cc.pc = "idle"
    /\ \E videos \in VideoLists :
          /\ Len(videos) >= 2
          /\ cc' = [ConcatIdle EXCEPT !.pc = "called", !.video_list = videos,
                                      !.output_arg = NoPath, !.high_quality = FALSE,
                                      !.disk0 = ccDisk,
                                      !.caller = "preview_up_to", !.thread = "ui"]
    /\ UNCHANGED <<ccDisk, graphVars, queryVars, scanVars, extractVars, appVars>>

\* the button "Save Combined": save_combined runs as a Tk callback on the UI
\* thread; with two or more clips and a path chosen in the save dialog it
\* calls concat_videos(videos, output_path=out_path, high_quality=True)
\* itself, starting no thread
SaveCombined ==
    /\ cc.pc = "idle"
    /\ \E videos \in VideoLists :
          /\ Len(videos) >= 2
          /\ cc' = [ConcatIdle EXCEPT !.pc = "called", !.video_list = videos,
                                      !.output_arg = Given(OutArg), !.high_quality = TRUE,
                                      !.disk0 = ccDisk,
                                      !.caller = "save_combined", !.thread = "ui"]
    /\ UNCHANGED <<ccDisk, graphVars, queryVars, scanVars, extractVars, appVars>>

ConcatBeginStep ==
    /\ cc.pc = "called"
    /\ LET r == ConcatBegin(cc, ccDisk)
       IN cc' = r.q /\ ccDisk' = r.files
    /\ UNCHANGED <<graphVars, queryVars, scanVars, extractVars, appVars>>

ConcatEncodeStep ==
    /\ cc.pc = "encode"
    /\ \E outcome \in EncoderOutcomes :
          LET r == ConcatEncode(cc, ccDisk, outcome)
          IN cc' = r.q /\ ccDisk' = r.files
    /\ UNCHANGED <<graphVars, queryVars, scanVars, extractVars, appVars>>

ConcatFinishStep ==
    /\ cc.pc = "after"
    /\ LET r == ConcatFinish(cc, ccDisk)
       IN cc' = r.q /\ ccDisk' = r.files
    /\ UNCHANGED <<graphVars, queryVars, scanVars, extractVars, appVars>>

NextConcat ==
    \/ CallConcat
    \/ PreviewUpTo
    \/ SaveCombined
    \/ ConcatBeginStep
    \/ ConcatEncodeStep
    \/ ConcatFinishStep

SpecConcat == InitConcat /\ [][NextConcat]_vars

\* ------------------------------------------- the application specification
\* TimelineApp: start-up from the two JSON files, the events that start a
\* scan thread, the steps of a scan thread, the callbacks it posts to the Tk
\* main loop, and a query of the database from the main thread.
AppFolderLists == {<<"/B">>, <<"/A", "/B">>}

\* timeline_config.json: missing; unreadable or no JSON; JSON that is no
\* object; {"folders": "M"}; {"folders": [...]}
ConfigFiles ==
    {[t |-> x, folder_list |-> <<>>] : x \in {"missing", "invalid", "list", "folders_string"}}
    \cup {[t |-> "good", folder_list |-> fl] : fl \in AppFolderLists}

\* timeline_cache.json: missing; unreadable or no JSON; a JSON list; the
\* cache an earlier run saved after scanning /B
CacheFilesFor(meta) ==
    {[t |-> x, cache |-> EmptyMap] : x \in {"missing", "invalid", "list"}}
    \cup {[t |-> "good",
           cache |-> LET st == ScanFolders([q \in Files |-> [exists |-> TRUE, mtime |-> FirstMtime(q)]],
                                           meta, <<"/B">>, EmptyMap)
                     IN IF st.raised THEN EmptyMap ELSE st.cache]}

\* load_config: [] unless the file exists and json.load and the list
\* comprehension over data.get("folders", []) raise nothing; a string under
\* "folders" is iterated character by character
LoadConfig(file) ==
    CASE file.t = "good" -> file.folder_list
      [] file.t = "folders_string" -> <<"/M">>
      [] OTHER -> <<>>

\* load_cache: {} unless the file exists and json.load raises nothing; then
\* whatever json.load returned
LoadCache(file) ==
    CASE file.t = "good" -> [obj |-> "dict", cache |-> file.cache]
      [] file.t = "list" -> [obj |-> "list", cache |-> EmptyMap]
      [] OTHER -> [obj |-> "dict", cache |-> EmptyMap]

NewThread(kind) ==
    [kind |-> kind, pc |-> "start", folder_list |-> <<>>, posted |-> FALSE, cause |-> "none"]

\* the application record at the start of a step: what the last query read is gone
Fresh == [app EXCEPT !.read = NoRead]

\* show_progress_popup: a new Toplevel that takes the grab
ShowProgressPopup(a) ==
    [a EXCEPT !.popups = Append(@, TRUE), !.grab = Len(a.popups) + 1]

\* the main window takes pointer and keyboard events: no popup holds the grab
\* and no message box is open
Accessible == app.started /\ app.grab = 0 /\ app.boxes = 0

\* str(Path(path).parent.resolve())
Parent(path) ==
    CASE path = "/A/x.mp4" -> "/A"
      [] path = "/A/sub/y.mp4" -> "/A/sub"
      [] OTHER -> "/B"

InScanPcs == {"cleared", "scanned", "graphcleared", "built"}
InScan == {i \in DOMAIN threads : threads[i].pc \in InScanPcs}

InitApp ==
    /\ app = AppOff
    /\ threads = <<>>
    /\ disk = [p \in Files |-> [exists |-> TRUE, mtime |-> FirstMtime(p)]]
    /\ clipMeta \in {m \in [Range(ClipFiles) -> ScanTags] :
                        /\ m["/A/x.mp4"] = TagNone
                        /\ m["/A/sub/y.mp4"] = TagNone
                        /\ m["/B/z.mp4"] # TagNone}
    /\ jsonFiles \in [config : ConfigFiles, cache : CacheFilesFor(clipMeta)]
    /\ folders = <<>>
    /\ cache = EmptyMap
    /\ changes = {}
    /\ nChanges = 0
    /\ lastScan = NoScan
    /\ GraphAtRest
    /\ chainQ = ChainIdle
    /\ treeQ = TreeIdle
    /\ ExtractAtRest
    /\ ConcatAtRest

\* TimelineApp.__init__
Startup ==
    /\ ~app.started
    /\ LET loaded == LoadCache(jsonFiles.cache)
           current_folders == LoadConfig(jsonFiles.config)
           begun == [Fresh EXCEPT !.started = TRUE, !.cacheObj = loaded.obj]
       IN /\ cache' = loaded.cache
          /\ folders' = current_folders
          /\ IF current_folders # <<>>
             THEN /\ app' = ShowProgressPopup(begun)
                  /\ threads' = <<NewThread("auto")>>
             ELSE /\ app' = [begun EXCEPT !.status.text = "Ready - Add folders to begin"]
                  /\ threads' = <<>>
    /\ UNCHANGED <<jsonFiles, disk, clipMeta, changes, nChanges, lastScan,
                   graphVars, queryVars, extractVars, concatVars>>

\* save_and_refresh with the folder list fl in the entry field
StartManualScan(fl) ==
    /\ fl # <<>>
    /\ Len(threads) < MaxScans
    /\ folders' = fl
    /\ jsonFiles' = [jsonFiles EXCEPT !.config = [t |-> "good", folder_list |-> fl]]
    /\ app' = ShowProgressPopup(Fresh)
    /\ threads' = Append(threads, NewThread("manual"))
    /\ UNCHANGED <<disk, clipMeta, cache, changes, nChanges, lastScan,
                   graphVars, queryVars, extractVars, concatVars>>

\* the user presses "Save & Refresh"
SaveAndRefresh ==
    /\ Accessible
    /\ \E fl \in AppFolderLists : StartManualScan(fl)

\* the user drops a clip of a folder that is not configured and accepts to
\* add the folder
DropUnconfigured ==
    /\ Accessible
    /\ \E path \in Range(ClipFiles) :
          /\ Parent(path) \notin Range(folders)
          /\ StartManualScan(Append(folders, Parent(path)))

\* the complete state scan_folders leaves when it scans folder_list alone
CompleteViews(folder_list) ==
    LET st == ScanFolders(disk, clipMeta, folder_list, EmptyMap)
        g == BuildGraph(st.order, st.mp4s, st.pngs)
    IN IF st.raised THEN {} ELSE {View(st.mp4s, st.pngs, g.pred, g.succ)}

\* the user drops a clip of a configured folder: process_video_path and
\* show_backward or show_forward read mp4s, pngs, pred and succ
Query ==
    /\ Accessible
    /\ \E path \in Range(ClipFiles) : Parent(path) \in Range(folders)
    /\ app' = [app EXCEPT !.read =
                  [taken |-> TRUE,
                   during |-> InScan # {},
                   view |-> View(mp4s, pngs, pred, succ),
                   complete |-> {app.committed}
                                \cup UNION {CompleteViews(threads[i].folder_list) : i \in InScan}]]
    /\ UNCHANGED <<jsonFiles, threads, scanVars, graphVars, queryVars, extractVars, concatVars>>

\* the user closes a progress popup with the window manager's close button:
\* the Toplevel has no WM_DELETE_WINDOW handler, so it is destroyed and its
\* grab released
UserClosesPopup ==
    /\ app.started
    /\ app.boxes = 0
    /\ \E k \in DOMAIN app.popups :
          /\ app.popups[k]
          /\ app.grab \in {0, k}
          /\ app' = [Fresh EXCEPT !.popups[k] = FALSE, !.grab = 0]
    /\ UNCHANGED <<jsonFiles, threads, scanVars, graphVars, queryVars, extractVars, concatVars>>

\* scan_folders is called with self.current_folders: the merged view cleared
ScanClear(i) ==
    /\ threads[i].pc = "start"
    /\ threads' = [threads EXCEPT ![i].pc = "cleared", ![i].folder_list = folders]
    /\ mp4s' = EmptyMap
    /\ mp4sOrder' = <<>>
    /\ pngs' = EmptyMap
    /\ phase' = "loaded"
    /\ app' = Fresh
    /\ UNCHANGED <<pred, succ, jsonFiles, scanVars, queryVars, extractVars, concatVars>>

\* scan_folders from the clean-up of the cache to the end of the folder loop
ScanUpdate(i) ==
    /\ threads[i].pc = "cleared"
    /\ app' = Fresh
    /\ IF app.cacheObj # "dict"
       THEN \* cache.keys() raises AttributeError
            /\ threads' = [threads EXCEPT ![i].pc = "dead", ![i].cause = "cache_shape"]
            /\ UNCHANGED <<cache, mp4s, mp4sOrder, pngs>>
       ELSE LET fl == threads[i].folder_list
                st == ScanFrom(disk, clipMeta, fl, 1,
                               [cache |-> Restrict(cache, Range(fl)),
                                mp4s |-> mp4s, order |-> mp4sOrder, pngs |-> pngs,
                                calls |-> [p \in Range(ClipFiles) |-> 0],
                                removed |-> {}, written |-> {},
                                raised |-> FALSE])
            IN /\ cache' = st.cache
               /\ mp4s' = st.mp4s
               /\ mp4sOrder' = st.order
               /\ pngs' = st.pngs
               /\ threads' = IF st.raised
                             THEN [threads EXCEPT ![i].pc = "dead", ![i].cause = "extractor"]
                             ELSE [threads EXCEPT ![i].pc = "scanned"]
    /\ UNCHANGED <<pred, succ, phase, jsonFiles, disk, clipMeta, folders, changes, nChanges,
                   lastScan, queryVars, extractVars, concatVars>>

\* build_graph: self.pred.clear(); self.succ.clear()
GraphClear(i) ==
    /\ threads[i].pc = "scanned"
    /\ threads' = [threads EXCEPT ![i].pc = "graphcleared"]
    /\ pred' = EmptyMap
    /\ succ' = EmptyMap
    /\ app' = Fresh
    /\ UNCHANGED <<mp4s, mp4sOrder, pngs, phase, jsonFiles, scanVars, queryVars,
                   extractVars, concatVars>>

\* build_graph: the loop over mp4s, on pred and succ as they are
GraphFill(i) ==
    /\ threads[i].pc = "graphcleared"
    /\ threads' = [threads EXCEPT ![i].pc = "built"]
    /\ LET g == BuildFrom(mp4sOrder, mp4s, pngs, 1, [pred |-> pred, succ |-> succ])
       IN /\ pred' = g.pred
          /\ succ' = g.succ
          /\ app' = [Fresh EXCEPT !.committed = View(mp4s, pngs, g.pred, g.succ)]
    /\ phase' = "built"
    /\ UNCHANGED <<mp4s, mp4sOrder, pngs, jsonFiles, scanVars, queryVars,
                   extractVars, concatVars>>

\* save_cache
SaveCache(i) ==
    /\ threads[i].pc = "built"
    /\ threads' = [threads EXCEPT ![i].pc = "saved"]
    /\ jsonFiles' = [jsonFiles EXCEPT !.cache = [t |-> "good", cache |-> cache]]
    /\ app' = Fresh
    /\ UNCHANGED <<scanVars, graphVars, queryVars, extractVars, concatVars>>

\* the three root.after(0, ...) calls, and in perform_scan messagebox.showinfo
PostResult(i) ==
    /\ threads[i].pc = "saved"
    /\ threads' = [threads EXCEPT ![i].pc = IF threads[i].kind = "manual" THEN "box" ELSE "done",
                                  ![i].posted = TRUE]
    /\ app' = [Fresh EXCEPT
                  !.afterQ = @ \o <<"close_progress_popup", "delete_welcome", "set_status">>,
                  !.boxes = IF threads[i].kind = "manual" THEN @ + 1 ELSE @]
    /\ UNCHANGED <<jsonFiles, scanVars, graphVars, queryVars, extractVars, concatVars>>

\* the user closes the "Scan Complete" box: perform_scan returns
DismissBox(i) ==
    /\ threads[i].pc = "box"
    /\ threads' = [threads EXCEPT ![i].pc = "done"]
    /\ app' = [Fresh EXCEPT !.boxes = @ - 1]
    /\ UNCHANGED <<jsonFiles, scanVars, graphVars, queryVars, extractVars, concatVars>>

\* the main loop runs the oldest callback posted with root.after
RunAfter ==
    /\ app.afterQ # <<>>
    /\ LET callback == Head(app.afterQ)
           rest == [Fresh EXCEPT !.afterQ = Tail(@)]
           last == Len(app.popups)
       IN app' =
            CASE callback = "close_progress_popup" ->
                    IF last > 0 /\ app.popups[last]
                    THEN [rest EXCEPT !.popups[last] = FALSE,
                                      !.grab = IF @ = last THEN 0 ELSE @]
                    ELSE rest
              [] callback = "delete_welcome" -> [rest EXCEPT !.welcome = FALSE]
              [] OTHER ->
                    [rest EXCEPT !.status = [text |-> "Ready", videos |-> Cardinality(DOMAIN mp4s),
                                             frames |-> Cardinality(DOMAIN pngs)]]
    /\ UNCHANGED <<jsonFiles, threads, scanVars, graphVars, queryVars, extractVars, concatVars>>

ThreadStep ==
    \E i \in DOMAIN threads :
        \/ ScanClear(i)
        \/ ScanUpdate(i)
        \/ GraphClear(i)
        \/ GraphFill(i)
        \/ SaveCache(i)
        \/ PostResult(i)
        \/ DismissBox(i)

NextApp ==
    \/ Startup
    \/ SaveAndRefresh
    \/ DropUnconfigured
    \/ Query
    \/ UserClosesPopup
    \/ ThreadStep
    \/ RunAfter

SpecApp == InitApp /\ [][NextApp]_vars

\* -------------------------------------------------- results of whole queries
\* get_backward_chain(start_mp4) run until it returns, or for MaxChain + 1
\* evaluations of its loop condition when it does not
RECURSIVE RunChainFrom(_, _, _)
RunChainFrom(predMap, q, fuel) ==
    IF q.pc = "done" \/ fuel = 0 THEN q
    ELSE RunChainFrom(predMap, ChainStep(predMap, q), fuel - 1)

RunChain(predMap, start_mp4) == RunChainFrom(predMap, ChainEnter(start_mp4), MaxChain + 1)

NoDuplicates(s) == \A i, j \in 1..Len(s) : i # j => s[i] # s[j]

\* every iteration order of a set of keys
OrdersOf(S) ==
    {o \in [1..Cardinality(S) -> S] : \A i, j \in 1..Cardinality(S) : i # j => o[i] # o[j]}

QueriesAtRest == chainQ.pc = "idle" /\ treeQ.pc = "idle"

\* ------------------------------------------------------------------ claims

\* C1: get_backward_chain terminates for every predecessor map: following
\* predecessor links never puts a clip on the chain a second time (a revisit
\* aborts the query with a structural error instead).
C1_ChainNeverRevisits ==
    /\ NoDuplicates(chainQ.chain)
    /\ Len(chainQ.chain) <= Cardinality(DOMAIN mp4s)

\* C2: get_forward_tree guards against revisiting a node: recurse is entered at
\* most once for each clip and the expansion ends without exhausting the
\* recursion limit.
C2_TreeVisitsOnce ==
    /\ \A c \in DOMAIN treeQ.calls : treeQ.calls[c] <= 1
    /\ treeQ.pc # "RecursionError"

\* C3 as stated: for every clip R and every key C of get_forward_tree(R), the
\* first element of get_backward_chain(C) is R.
C3_ChainStartsWithAnyR ==
    treeQ.pc = "done" =>
        \A C \in DOMAIN treeQ.tree :
            LET r == RunChain(pred, C)
            IN r.pc = "done" /\ r.chain[1] = treeQ.start

\* C3 amended: for every clip R that has no predecessor and every key C of
\* get_forward_tree(R), get_backward_chain(C) returns and its first element
\* is R.
C3_ChainStartsWithRoot ==
    (treeQ.pc = "done" /\ treeQ.start \notin DOMAIN pred) =>
        \A C \in DOMAIN treeQ.tree :
            LET r == RunChain(pred, C)
            IN r.pc = "done" /\ r.chain[1] = treeQ.start

\* a finished forward tree of a root that holds a grandchild of the root
C3_Witness ==
    /\ treeQ.pc = "done"
    /\ treeQ.start \notin DOMAIN pred
    /\ \E C \in DOMAIN treeQ.tree :
          /\ C \in DOMAIN pred
          /\ pred[C] # treeQ.start
          /\ RunChain(pred, C).chain[1] = treeQ.start

\* C4: build_graph is deterministic with respect to iteration order: every
\* iteration order of the merged clip map yields the same predecessor map and
\* the same successor lists.
C4_OrderIndependent ==
    (phase = "built" /\ QueriesAtRest) =>
        \A o \in OrdersOf(DOMAIN mp4s) :
            LET g == BuildGraph(o, mp4s, pngs)
            IN g.pred = pred /\ g.succ = succ

\* C5: scan idempotence: a scan that follows a scan with no change of the
\* files or of the folder list in between leaves the cache as it was and
\* yields the same pred and succ maps.
C5_ScanIdempotent ==
    [][(Scan /\ lastScan.n >= 1 /\ changes = {}) =>
          (cache' = cache /\ pred' = pred /\ succ' = succ)]_vars

\* a second scan without changes in between, over a cache that holds clips
\* and frame images and a graph that has an edge
C5_Witness ==
    /\ lastScan.n = 2
    /\ lastScan.delta = {}
    /\ ~lastScan.raised
    /\ pred # EmptyMap
    /\ \E r \in DOMAIN cache : cache[r].mp4s # EmptyMap /\ cache[r].pngs # EmptyMap

\* C6: cache invalidation: when exactly one clip file's modification time
\* under a configured root changed between two scans, the second scan calls
\* the extractor once, for that file, whatever the list of roots (no clip's
\* metadata makes the extractor fail here).
C6_OneTouchOneExtraction ==
    \A p \in Range(ClipFiles) :
        (/\ lastScan.n = 2
         /\ lastScan.delta = {<<"touch", p>>}
         /\ changes = {}
         /\ RootsOf(p) \cap Range(folders) # {}
         /\ \A q \in Range(ClipFiles) : clipMeta[q] # TagNoInputs)
        => lastScan.calls = [q \in Range(ClipFiles) |-> IF q = p THEN 1 ELSE 0]

\* C7: a per-file extraction failure never aborts scan_folders: after a scan
\* every clip file under the configured roots has a record in the merged
\* view, without a seed-image reference when its document has an unexpected
\* shape, and the graph is rebuilt.
C7_ScanSurvivesBadMetadata ==
    (lastScan.n >= 1 /\ changes = {}) =>
        /\ ~lastScan.raised
        /\ phase = "built"
        /\ \A p \in Range(ClipFiles) :
              (disk[p].exists /\ RootsOf(p) \cap Range(folders) # {}) =>
                  /\ p \in DOMAIN mp4s
                  /\ clipMeta[p] = TagNoInputs => mp4s[p].input_png = None

\* C8: the metadata extractor never raises: for every file and every parsed
\* document it returns, and a failure gives a null workflow and a null
\* seed-image reference.
C8_ExtractorNeverRaises ==
    /\ ex.pc # "raised"
    /\ (ex.pc = "returned" /\ ex.workflow = PyNone) => ex.found = Returned(None)

\* C9: cleanup on failure: when concat_videos with two or more clips fails
\* (the encoder exits non-zero or cannot be run), no file is left at the
\* target output path (which held none when concat_videos was called) and
\* the failure is reported.
C9_NoOutputAfterFailure ==
    (/\ Len(cc.video_list) >= 2
     /\ cc.pc \in {"returned", "raised"}
     /\ cc.pc = "raised" \/ cc.returncode # 0
     /\ cc.output_path.path \notin cc.disk0)
    => /\ cc.output_path.path \notin ccDisk
       /\ cc.pc = "raised" \/ (cc.reported /\ cc.result = NoPath)

\* C10: concatenation no-op: concat_videos with a list of exactly one path
\* returns that path, starts no encoder and creates no list file or output
\* file, whatever the fidelity mode and the output path argument.
C10_SinglePathNoOp ==
    (Len(cc.video_list) = 1 /\ cc.pc # "called") =>
        /\ cc.pc = "returned"
        /\ cc.result = Given(cc.video_list[1])
        /\ cc.runs = 0
        /\ cc.list_lines = <<>>
        /\ ccDisk = cc.disk0

\* a one-clip call in archival mode with an output path has returned
C10_Witness ==
    /\ cc.pc = "returned"
    /\ Len(cc.video_list) = 1
    /\ cc.high_quality
    /\ cc.output_arg.given
    /\ cc.result = Given(cc.video_list[1])

\* ------------------------------------------------- claims on build_graph
\* a clip whose seed image is a key of the merged frame-image view
Seeded(C) == mp4s[C].input_png # None /\ mp4s[C].input_png \in DOMAIN pngs

\* |timestamp of clip o - referenceTime of clip C|
Dist(o, C) == Abs(mp4s[o].time - pngs[mp4s[C].input_png].time)

\* the other clips closer than 30 to the reference time of C
WithinWindow(C) == {o \in DOMAIN mp4s \ {C} : Dist(o, C) < 30}

\* C11: predecessor selection: for every clip that gets a predecessor P, no
\* other candidate has a strictly smaller |timestamp - referenceTime| than P,
\* and among the candidates with the same minimal distance P has the greatest
\* timestamp.
C11_ClosestThenMostRecent ==
    (phase = "built" /\ QueriesAtRest) =>
        \A C \in DOMAIN pred :
            /\ Seeded(C)
            /\ pred[C] \in WithinWindow(C)
            /\ \A o \in WithinWindow(C) :
                  /\ Dist(o, C) >= Dist(pred[C], C)
                  /\ Dist(o, C) = Dist(pred[C], C) => mp4s[o].time <= mp4s[pred[C]].time

\* a predecessor chosen by recency among two candidates at the same distance,
\* the older of which comes first in the iteration order
C11_Witness ==
    /\ phase = "built"
    /\ \E C \in DOMAIN pred : \E o \in WithinWindow(C) :
          /\ Dist(o, C) = Dist(pred[C], C)
          /\ mp4s[o].time < mp4s[pred[C]].time
          /\ \E i, j \in 1..Len(mp4sOrder) :
                i < j /\ mp4sOrder[i] = o /\ mp4sOrder[j] = pred[C]

\* C12: window boundary: for every edge pred[C] = P, P is a clip other than C
\* and |time(P) - time(seed image of C)| < 30; the candidates of a seeded clip
\* are exactly the other clips at a distance below 30 (a clip at distance 30
\* is none, a clip at distance 29 is one), and the clip gets a predecessor
\* exactly when it has a candidate.
C12_WindowBoundary ==
    (phase = "built" /\ QueriesAtRest) =>
        /\ \A C \in DOMAIN pred :
              Seeded(C) /\ pred[C] # C /\ pred[C] \in DOMAIN mp4s /\ Dist(pred[C], C) < 30
        /\ \A C \in DOMAIN mp4s :
              Seeded(C) =>
                 LET cands == Candidates(mp4sOrder, mp4s, C, pngs[mp4s[C].input_png].time, 1)
                 IN /\ {cands[k][3] : k \in 1..Len(cands)} = WithinWindow(C)
                    /\ C \in DOMAIN pred <=> WithinWindow(C) # {}

\* one clip has a predecessor at distance 29, another seeded clip has none
\* although there are clips at distance exactly 30
C12_Witness ==
    /\ phase = "built"
    /\ \E C \in DOMAIN pred : Dist(pred[C], C) = 29
    /\ \E D \in DOMAIN mp4s :
          /\ Seeded(D)
          /\ D \notin DOMAIN pred
          /\ \E o \in DOMAIN mp4s \ {D} : Dist(o, D) = 30

\* ---------------------------------------------- claims on the two queries
\* C19: get_backward_chain(C) over an acyclic predecessor map returns the path
\* root first and queried clip last: the last element is C, the first has no
\* predecessor, and pred[y] = x for every adjacent pair (x, y).
C19_ChainRootFirst ==
    chainQ.pc = "done" =>
        LET chain == chainQ.chain
        IN /\ Len(chain) >= 1
           /\ chain[Len(chain)] = chainQ.start
           /\ chain[1] \notin DOMAIN pred
           /\ \A i \in 1..(Len(chain) - 1) :
                 chain[i + 1] \in DOMAIN pred /\ pred[chain[i + 1]] = chain[i]

\* a returned chain of three clips
C19_Witness ==
    /\ chainQ.pc = "done"
    /\ Len(chainQ.chain) = 3
    /\ chainQ.chain[3] = chainQ.start
    /\ chainQ.chain[1] # chainQ.start

\* the clips reachable from the clips of S through successor lists, S included
RECURSIVE ReachableFrom(_, _)
ReachableFrom(succMap, S) ==
    LET next == S \cup UNION {Range(Get(succMap, c, <<>>)) : c \in S}
    IN IF next = S THEN S ELSE ReachableFrom(succMap, next)

\* C20: get_forward_tree(R) over a forest returns a mapping whose keys are
\* exactly R and every clip reachable from R through successor lists, and
\* whose value for each key is that clip's successor list (empty for a leaf).
C20_TreeIsReachableSet ==
    treeQ.pc = "done" =>
        /\ DOMAIN treeQ.tree = ReachableFrom(succ, {treeQ.start})
        /\ \A k \in DOMAIN treeQ.tree : treeQ.tree[k] = Get(succ, k, <<>>)

\* a returned tree of a root with a child and a grandchild, which is a leaf
C20_Witness ==
    /\ treeQ.pc = "done"
    /\ \E k \in DOMAIN treeQ.tree :
          /\ k \in DOMAIN pred
          /\ pred[k] # treeQ.start
          /\ pred[k] \in DOMAIN treeQ.tree
          /\ treeQ.tree[k] = <<>>
          /\ treeQ.tree[treeQ.start] # <<>>

\* ------------------------------------------------- claims on scan_folders
\* the clip files that exist under root r
ClipsUnder(r) == {p \in Range(ClipFiles) : disk[p].exists /\ r \in RootsOf(p)}

\* C13: after every scan_folders call the cache holds exactly the current
\* state: its keys are the configured roots, each root's clip map has exactly
\* the clip files under that root as keys, and each cached clip record's
\* mtime is the file's modification time.
C13_CacheExact ==
    (lastScan.n >= 1 /\ changes = {}) =>
        /\ DOMAIN cache = Range(folders)
        /\ \A r \in DOMAIN cache :
              /\ DOMAIN cache[r].mp4s = ClipsUnder(r)
              /\ \A p \in DOMAIN cache[r].mp4s : cache[r].mp4s[p].mtime = disk[p].mtime

\* the folder list without its missing roots
PresentRoots(folder_list) == SelectSeq(folder_list, LAMBDA f : f \notin MissingRoots)

\* C14: a missing or unreadable root in the folder list is skipped without
\* aborting scan_folders: the scan does with the other roots what it does
\* when the list holds them alone (same merged view, same extractor calls,
\* same cache entries, same outcome), the missing root gets an empty cache
\* entry, and when no extraction raised every clip under the other roots is
\* in the merged view and the graph is rebuilt from it.
C14_MissingRootSkipped ==
    [][(Scan /\ Range(folders) \cap MissingRoots # {}) =>
          LET st == ScanFolders(disk, clipMeta, PresentRoots(folders), cache)
          IN /\ mp4s' = st.mp4s
             /\ mp4sOrder' = st.order
             /\ pngs' = st.pngs
             /\ lastScan'.raised = st.raised
             /\ lastScan'.calls = st.calls
             /\ \A r \in DOMAIN st.cache : r \in DOMAIN cache' /\ cache'[r] = st.cache[r]
             /\ \A m \in MissingRoots : m \in DOMAIN cache' => cache'[m] = NoEntry
             /\ ~st.raised =>
                   /\ DOMAIN cache' = Range(folders)
                   /\ phase' = "built"
                   /\ \A r \in Range(PresentRoots(folders)) : ClipsUnder(r) \subseteq DOMAIN mp4s'
                   /\ pred' = BuildGraph(mp4sOrder', mp4s', pngs').pred
                   /\ succ' = BuildGraph(mp4sOrder', mp4s', pngs').succ]_vars

\* a scan of a missing root and an existing one has returned: the clip and
\* the frame image of the existing root are in the merged view
C14_Witness ==
    /\ lastScan.n >= 1
    /\ changes = {}
    /\ folders = <<"/M", "/B">>
    /\ ~lastScan.raised
    /\ phase = "built"
    /\ cache["/M"] = NoEntry
    /\ "/B/z.mp4" \in DOMAIN mp4s
    /\ pngs # EmptyMap

\* ----------------------------------------------- claims on the application
\* C15: at most one scan runs against the application's cache and
\* VideoDatabase at any time: whatever the user does, no two scan threads are
\* between their call of scan_folders and the end of save_cache at once.
C15_OneScanAtATime == Cardinality(InScan) <= 1

\* C16: snapshot consistency for readers: a query that reads mp4s, pngs, pred
\* and succ while a scan is running sees the complete state the previous scan
\* left or the complete state the running scan produces, never a cleared or
\* partly rebuilt one.
C16_ReaderSeesSnapshot ==
    (app.read.taken /\ app.read.during) => app.read.view \in app.read.complete

\* C17: every scan that is started completes and reports its result: a scan
\* thread never ends without having posted the close of the progress popup
\* and the clip and frame-image counts to the main loop, also when the
\* extraction failed for a file (the cache being the JSON object the scan
\* expects).
C17_ScanReports ==
    app.cacheObj = "dict" =>
        \A i \in DOMAIN threads : threads[i].pc \in {"done", "dead"} => threads[i].posted

\* C18: start-up fallback: when the cache file or the configuration file is
\* missing or corrupt (unreadable, no JSON, or JSON of an unexpected shape),
\* load_cache yields an empty cache and load_config an empty folder list, and
\* no scan is aborted by what was loaded.
C18_StartupFallback ==
    [][/\ (Startup /\ jsonFiles.cache.t # "good") => (app'.cacheObj = "dict" /\ cache' = EmptyMap)
       /\ (Startup /\ jsonFiles.config.t # "good") => (folders' = <<>> /\ threads' = <<>>)
       /\ \A i \in DOMAIN threads' : threads'[i].cause # "cache_shape"]_vars

\* ------------------------------------------ claims on the shape of the graph
\* the clips reached from C by following predMap at most n times
RECURSIVE AncestorsOf(_, _, _)
AncestorsOf(predMap, C, n) ==
    IF n = 0 \/ C \notin DOMAIN predMap THEN {}
    ELSE {predMap[C]} \cup AncestorsOf(predMap, predMap[C], n - 1)

Ancestors(C) == AncestorsOf(pred, C, Cardinality(DOMAIN mp4s))

Acyclic == \A C \in DOMAIN mp4s : C \notin Ancestors(C)

\* the positions <<P, k>> at which C occurs in a successor list
Occurrences(C) ==
    {pk \in UNION {{<<P, k>> : k \in 1..Len(succ[P])} : P \in DOMAIN succ} :
        succ[pk[1]][pk[2]] = C}

\* C21 as stated: the predecessor relation produced by build_graph is acyclic
\* for any clip and frame-image records: no clip is its own ancestor and no
\* two clips are each other's predecessor.
C21_PredAcyclic ==
    (phase = "built" /\ QueriesAtRest) =>
        /\ Acyclic
        /\ \A C, D \in DOMAIN pred : ~(pred[C] = D /\ D \in DOMAIN pred /\ pred[D] = C)

\* C21, amended: no clip is its own predecessor, and whenever the predecessor
\* relation produced by build_graph is acyclic the successor relation is a
\* forest: every clip occurs at most once in the successor lists and no clip
\* is its own descendant.
C21_IrreflexiveAndForestIfAcyclic ==
    (phase = "built" /\ QueriesAtRest) =>
        /\ \A C \in DOMAIN pred : pred[C] # C
        /\ Acyclic =>
              \A C \in DOMAIN mp4s :
                 /\ Cardinality(Occurrences(C)) <= 1
                 /\ C \notin ReachableFrom(succ, Range(Get(succ, C, <<>>)))

\* an acyclic graph in which a clip closest to its own seed image has another
\* clip as predecessor, and some clip has a grandparent
C21_Witness ==
    /\ phase = "built"
    /\ Acyclic
    /\ \E C \in DOMAIN pred :
          /\ Abs(mp4s[C].time - pngs[mp4s[C].input_png].time) < Dist(pred[C], C)
          /\ pred[C] \in DOMAIN pred

\* C22: after build_graph the successor map is the exact inverse of the
\* predecessor map: a clip C occurs in succ[P] exactly when pred[C] = P, it
\* occurs there once, and no clip occurs in two successor lists.
C22_SuccInvertsPred ==
    (phase = "built" /\ QueriesAtRest) =>
        /\ \A P \in DOMAIN succ : \A k \in 1..Len(succ[P]) :
              succ[P][k] \in DOMAIN pred /\ pred[succ[P][k]] = P
        /\ \A C \in DOMAIN pred :
              /\ pred[C] \in DOMAIN succ
              /\ Cardinality({k \in 1..Len(succ[pred[C]]) : succ[pred[C]][k] = C}) = 1
              /\ Cardinality(Occurrences(C)) = 1

\* a clip with two successors
C22_Witness ==
    /\ phase = "built"
    /\ \E P \in DOMAIN succ : Len(succ[P]) >= 2

\* C23: a clip is a root (absent from pred) exactly when its seed-image
\* reference is null, or names no frame image of the merged view, or no other
\* clip lies within the window of that image's timestamp; every other clip
\* has a clip of the merged view as predecessor.
C23_RootExactly ==
    (phase = "built" /\ QueriesAtRest) =>
        \A C \in DOMAIN mp4s :
            /\ C \notin DOMAIN pred <=>
                  \/ mp4s[C].input_png = None
                  \/ mp4s[C].input_png \notin DOMAIN pngs
                  \/ WithinWindow(C) = {}
            /\ C \in DOMAIN pred => pred[C] \in DOMAIN mp4s \ {C}

\* the three kinds of root side by side with a clip that has exactly one
\* candidate and therefore a predecessor
C23_Witness ==
    /\ phase = "built"
    /\ \E C \in DOMAIN mp4s : C \notin DOMAIN pred /\ mp4s[C].input_png = None
    /\ \E C \in DOMAIN mp4s : C \in DOMAIN pred /\ Cardinality(WithinWindow(C)) = 1
    /\ \E C \in DOMAIN mp4s :
          \/ C \notin DOMAIN pred /\ Seeded(C)
          \/ mp4s[C].input_png # None /\ mp4s[C].input_png \notin DOMAIN pngs

\* ------------------------------------------- claims on scans and the graph
\* C24: the graph is rebuilt wholesale by every scan: after any sequence of
\* scans with changes in between, pred and succ are what build_graph computes
\* from the current merged view alone, and every clip that occurs in pred or
\* succ, as key or as value, is a key of the current merged clip view.
C24_GraphOfCurrentView ==
    lastScan.n >= 1 =>
        /\ [pred |-> pred, succ |-> succ] = BuildGraph(mp4sOrder, mp4s, pngs)
        /\ (DOMAIN pred \cup Range(pred) \cup DOMAIN succ
               \cup UNION {Range(succ[P]) : P \in DOMAIN succ}) \subseteq DOMAIN mp4s

\* ------------------------------------------------- claims on cache records
\* the clip files whose record in the cache of every configured root above
\* them carries the file's current modification time
UnchangedClips ==
    {p \in Range(ClipFiles) :
        /\ disk[p].exists
        /\ RootsOf(p) \cap Range(folders) # {}
        /\ \A r \in RootsOf(p) \cap Range(folders) :
              /\ r \in DOMAIN cache
              /\ p \in DOMAIN cache[r].mp4s
              /\ cache[r].mp4s[p].mtime = disk[p].mtime}

\* the <<root, basename>> pairs of the cached frame-image records of
\* configured roots whose file still exists under the root with the
\* recorded modification time, no other file of that basename lying there
UnchangedPngRecords ==
    {rk \in UNION {{<<r, k>> : k \in DOMAIN cache[r].pngs} :
                        r \in DOMAIN cache \cap Range(folders)} :
        LET rec == cache[rk[1]].pngs[rk[2]]
        IN /\ disk[rec.path].exists
           /\ disk[rec.path].mtime = rec.mtime
           /\ Current(PngFiles, disk, rk[1]) = <<rec.path>>}

\* C25: on a rescan a file with unchanged modification time keeps its cached
\* record untouched: the extractor is not invoked for an unchanged clip, and
\* neither an unchanged clip's record nor an unchanged frame image's record
\* is removed from, or written again into, its root's cache maps.
C25_UnchangedUntouched ==
    [][Scan =>
        LET st == ScanFolders(disk, clipMeta, folders, cache)
        IN /\ \A p \in UnchangedClips :
                 /\ st.calls[p] = 0
                 /\ \A r \in RootsOf(p) \cap Range(folders) :
                       <<r, p>> \notin st.removed \cup st.written
           /\ \A rk \in UnchangedPngRecords : rk \notin st.removed \cup st.written]_vars

\* the frame-image files in the order the scan of the configured roots
\* processes them
RECURSIVE PngsProcessed(_, _)
PngsProcessed(folder_list, i) ==
    IF i > Len(folder_list) THEN <<>>
    ELSE Current(PngFiles, disk, folder_list[i]) \o PngsProcessed(folder_list, i + 1)

\* C26: frame images are identified by basename only: when files of one
\* basename lie under two roots, or in two subfolders of one root, the merged
\* view holds a single record for the basename, the record of the location
\* processed last, and every clip that references the basename is matched
\* against that record's timestamp.
C26_LastLocationWins ==
    (lastScan.n >= 1 /\ ~lastScan.raised /\ changes = {}) =>
        LET all == PngsProcessed(folders, 1)
            last == all[Len(all)]
            name == BaseName(last)
            T == disk[last].mtime
        IN all # <<>> =>
             /\ pngs = (name :> [path |-> last, time |-> T, mtime |-> T])
             /\ \A C \in DOMAIN mp4s :
                   mp4s[C].input_png = name =>
                      LET W == {o \in DOMAIN mp4s \ {C} : Abs(mp4s[o].time - T) < 30}
                      IN /\ C \in DOMAIN pred <=> W # {}
                         /\ C \in DOMAIN pred =>
                               /\ pred[C] \in W
                               /\ \A o \in W : Abs(mp4s[o].time - T)
                                                  >= Abs(mp4s[pred[C]].time - T)

\* -------------------------------------------- claims on the concatenation
\* C27: concat_videos with two or more clips writes a concat list with one
\* entry per clip in input order, runs exactly one encoder process and waits
\* for it, returns the output path exactly when the exit status is 0, and
\* once it has finished, on success or failure, no concat-list file is left.
C27_ConcatProtocol ==
    (Len(cc.video_list) >= 2 /\ cc.pc \in {"returned", "raised"}) =>
        /\ Len(cc.list_lines) = Len(cc.video_list)
        /\ \A i \in 1..Len(cc.video_list) :
              cc.list_lines[i] = <<"file ", QUOTE>> \o Escape(cc.video_list[i]) \o <<QUOTE, "\n">>
        /\ cc.runs = 1
        /\ cc.result = cc.output_path <=> cc.returncode = 0
        /\ cc.returncode # 0 => cc.result = NoPath
        /\ TmpList \notin ccDisk

\* C28: scans and concatenations never execute on the UI thread: every
\* encoder run started by the UI actions Preview Up To and Save Combined
\* runs on a worker thread (as every scan started by the start-up refresh and
\* by Save & Refresh does).
C28_EncoderOffUiThread ==
    (cc.caller \in {"preview_up_to", "save_combined"} /\ cc.pc \in {"encode", "after"}) =>
        cc.thread = "worker"

\* C29: an explicit output path is required for archival: concat_videos with
\* high_quality=True and no output path does not run the encoder into an
\* auto-assigned temporary path (it makes no temporary output file and
\* starts no encoder); only preview mode gets an auto-assigned temporary path.
C29_ArchivalNeedsPath ==
    (cc.high_quality /\ ~cc.output_arg.given /\ cc.pc # "called") =>
        /\ cc.output_path # Given(TmpOut)
        /\ cc.runs = 0
        /\ cc.pc \notin {"encode", "after"}
        /\ ccDisk = cc.disk0

\* ------------------------------------------------ claims on the extraction
\* C30: key priority of extract_workflow_from_mp4: when the decoded comment
\* tag has the key "prompt", the workflow document is the JSON decoded from
\* the text under "prompt", whether or not "workflow" is present too; a value
\* under "prompt" that cannot be decoded gives a null workflow, with no
\* fallback to "workflow"; the value under "workflow" is used only when
\* "prompt" is absent.
C30_PromptBeforeWorkflow ==
    (ex.pc # "start" /\ ex.pc # "idle" /\ ex.meta.file = "json" /\ ex.meta.outer.t = "dict") =>
        LET prompt == ex.meta.outer.prompt
            workflow == ex.meta.outer.workflow
        IN /\ prompt.t = "text" => ex.workflow = prompt.doc
           /\ prompt.t \in {"badtext", "nonstring"} => ex.workflow = PyNone
           /\ (prompt.t = "absent" /\ workflow.t = "value") => ex.workflow = workflow.doc
           /\ (prompt.t = "absent" /\ workflow.t = "absent") => ex.workflow = PyNone

\* both keys present with different documents and the one under "prompt"
\* returned
C30_Witness ==
    /\ ex.pc = "extracted"
    /\ ex.meta.file = "json"
    /\ ex.meta.outer.t = "dict"
    /\ ex.meta.outer.prompt.t = "text"
    /\ ex.meta.outer.workflow.t = "value"
    /\ ex.meta.outer.prompt.doc.t = "dict"
    /\ ex.meta.outer.workflow.doc.t = "dict"
    /\ ex.meta.outer.prompt.doc # ex.meta.outer.workflow.doc
    /\ ex.workflow = ex.meta.outer.prompt.doc
====
